---- MODULE Spec2Model ----
(***************************************************************************)
(* Model of the asset pool (src/scripts/asset_pool.py): the three record   *)
(* collections kept by one AssetPool instance, their backing files, and    *)
(* one action per public operation; of the analyzer's functions            *)
(* (src/scripts/idea_analyzer.py); and of generate_daily_ideas             *)
(* (src/scripts/main.py) with the collectors it reads.                     *)
(*                                                                         *)
(* Conventions                                                             *)
(*  - Time is a counter of clock ticks, TicksPerSec ticks to the second.   *)
(*    datetime.now().isoformat() is the tick; strftime('%Y%m%d%H%M%S')     *)
(*    truncates it to the second, and the "idea-"/"exec-"/"rev-" prefix    *)
(*    is implied by the collection a record lives in.                      *)
(*  - A handler runs within one tick; Tick lets time pass between calls.   *)
(*  - An id argument is an issued second, EmptyId (the string ""), or      *)
(*    UnknownId (a well-formed id that was never issued), or NoneId        *)
(*    (Python None, the default of get_revenue_stats).                     *)
(*  - A dict key that is not present is Absent / AbsentT; Python None is   *)
(*    None.                                                                *)
(*  - Every add_idea call receives a dict of its own, as the callers in    *)
(*    main.py do.                                                          *)
(*  - amount is a float (asset_pool.py:187).  Floats are modelled as       *)
(*    non-negative integers whose sums are rounded to MantBits significant *)
(*    bits, ties to even, as IEEE-754 addition does with 53 bits.          *)
(*  - A text is the sequence of its characters, so that lower() and the    *)
(*    keyword tests are computed; a time in days is counted in half days.  *)
(*  - A call of the analyzer or of the generator is drawn with its         *)
(*    arguments in the initial state; its action completes it with the     *)
(*    value returned or the exception raised.                              *)
(***************************************************************************)
EXTENDS Integers, Sequences, FiniteSets, TLC

\* ---------------------------------------------------------------- bounds
TicksPerSec == 2
MaxNow == 1
MaxIdeas == 1
MaxExecs == 1
MaxTrail == 1
MaxRevs == 1
IdeasMaxNow == 2
IdeasMaxIdeas == 3
LifeMaxNow == 2
LifeMaxIdeas == 2
LifeMaxExecs == 2
TrailMaxNow == 2
TrailMaxExecs == 2
TrailMaxTrail == 2
StatsMaxRevs == 3
ListMaxNow == 2
ListMaxIdeas == 3
LoadMaxRecords == 1
RankMaxIdeas == 3
ScoreBits == 12
DailyMaxProjects == 2
TwoMaxNow == 1
TwoMaxIdeas == 2
TwoMaxExecs == 1
MantBits == 3

\* ------------------------------------------------------- value universes
None == "<None>"
Absent == "<absent>"
AbsentT == -1
EmptyId == -1
UnknownId == -2
NoneId == -3

\* a text is the sequence of its characters; NoneText is Python None where
\* a text is expected, AbsentText a key the dict does not have
NoneText == <<None>>
AbsentText == <<Absent>>

\* strftime('%Y%m%d%H%M%S'): the timestamp truncated to the second
StampSec(t) == t \div TicksPerSec

RevIdArgs == {0, EmptyId, UnknownId}
InputDicts == {[name |-> "n1"], [name |-> "n1", tags |-> <<"AI">>]}
StatusArgs == {"pending", "archived"}
NotesArgs == {None, "note"}
ListStatusArgs == {None, "", "pending", "archived"}
LimitArgs == 0..ListMaxIdeas
StepArgs == {"s1"}
StepStatusArgs == {"completed"}
LogArgs == {"l1"}
RECURSIVE Pow2(_)
Pow2(n) == IF n = 0 THEN 1 ELSE 2 * Pow2(n - 1)
Amounts == {1, Pow2(MantBits)}
Sources == {"A", "B"}

\* the project descriptors handed to the analyzer: stars and trending
\* stars on both sides of every band limit, texts that hit each keyword
\* rule alone and together, in both cases, and the fields a collector
\* leaves out (absent) or passes on as null (None)
StarsArgs == {10, 50, 51, 100, 101, 500, 501, 1000, 1001}
TrendingArgs == {AbsentT, 10, 11, 20, 21, 50, 51, 100, 101}
NameArgs == {<<"x", "/", "y">>, <<"a", "i", "/", "a", "p", "i">>}
LanguageArgs == {AbsentText, NoneText, <<"P", "y", "t", "h", "o", "n">>, <<"g", "o">>, <<"J", "a", "v", "a">>}
DescriptionArgs ==
    {AbsentText, NoneText,
     <<"A", "I">>,
     <<"e", "m", "a", "i", "l">>,
     <<"a", "p", "i">>,
     <<"S", "a", "a", "S", " ", "A", "P", "I">>,
     <<"l", "i", "b", "r", "a", "r", "y">>,
     <<"a", "p", "p">>,
     <<"s", "e", "r", "v", "i", "c", "e">>,
     <<"T", "o", "o", "l">>,
     <<"l", "e", "a", "r", "n", " ", "g", "u", "i", "d", "e">>,
     <<"p", "l", "a", "t", "f", "o", "r", "m">>,
     <<"A", "I", " ", "S", "a", "a", "S", " ", "A", "P", "I">>,
     <<"b", "u", "s", "i", "n", "e", "s", "s">>}
Projects ==
    [name : NameArgs, stars : StarsArgs, trending_stars : TrendingArgs,
     language : LanguageArgs, description : DescriptionArgs]

\* the preferences handed to _adjust_for_user: budgets below, on and
\* above twice each template's cost limits, times (in half days) below, on
\* and above each template's time limits, and skill lists with and without
\* a skill that raises the income
BudgetArgs == {-1, 0, 1, 199, 200, 201, 400, 401, 1000, 1001, 4000, 4001,
               1000000}
TimeArgs == {-2, 0, 1, 2, 5, 6, 7, 14, 15, 60, 61}
SkillArgs == {<<>>, <<<<"P", "y", "t", "h", "o", "n">>>>, <<<<"C", "o", "o", "k", "i", "n", "g">>>>}
TemplateNames == {"deployment_service", "consulting", "training",
                  "customization"}

\* the ideas handed to rank_ideas, as income, time (half days) and cost:
\* two that differ in income only, and three pairs of different ideas
\* whose scores are equal as real numbers
RankIdea(income, time, cost) ==
    [expected_income |-> income, time_needed |-> time, cost |-> cost]

RankIdeaArgs ==
    {RankIdea(10000, 2, 100), RankIdea(1000, 2, 100),
     RankIdea(10000, 4, 100), RankIdea(5000, 2, 100),
     RankIdea(3000, 6, 100), RankIdea(3000, 2, 300),
     RankIdea(1000, 10, 150), RankIdea(2000, 4, 375)}

VARIABLES now, ideas, executions, revenues,
          ideas_file, execution_file, revenue_file, call, other

vars == <<now, ideas, executions, revenues,
          ideas_file, execution_file, revenue_file, call, other>>

\* ------------------------------------------------------------- helpers
\* python truthiness of an optional string argument, and of an id argument
Truthy(s) == s \notin {None, ""}
TruthyId(i) == i \notin {NoneId, EmptyId}

\* ---- json.dump / json.load on the values the store holds.  A JSON text
\* is a tagged tree: <<"null">>, <<"string", s>>, <<"integer", n>>,
\* <<"real", x>>, <<"array", seq>>, <<"object", f>> with f a function on the
\* keys written; <<"malformed">> is a text json.load cannot parse.

\* the python type of the value stored under a key: "ident" and "stamp"
\* are str (an id, an isoformat text), "text" is str or None
FieldKinds ==
    [id |-> "ident", idea_id |-> "ident",
     created_at |-> "stamp", updated_at |-> "stamp", started_at |-> "stamp",
     completed_at |-> "stamp", recorded_at |-> "stamp", timestamp |-> "stamp",
     status |-> "text", name |-> "text", notes |-> "text", source |-> "text",
     step |-> "text", log |-> "text",
     score |-> "int", amount |-> "float", tags |-> "list of str",
     steps |-> "list of dict", logs |-> "list of dict"]

FieldKind(k) == FieldKinds[k]

\* the key is in the dict
HasKey(r, k) ==
    /\ k \in DOMAIN r
    /\ FieldKind(k) = "stamp" => r[k] # AbsentT
    /\ FieldKind(k) = "text" => r[k] # Absent

DumpScalar(kind, v) ==
    CASE kind \in {"ident", "stamp"} -> <<"string", v>>
      [] kind = "text" -> IF v = None THEN <<"null">> ELSE <<"string", v>>
      [] kind = "int" -> <<"integer", v>>
      [] kind = "float" -> <<"real", v>>
      [] kind = "list of str" ->
            <<"array", [i \in 1..Len(v) |-> <<"string", v[i]>>]>>

LoadScalar(kind, j) ==
    CASE kind = "list of str" -> [i \in 1..Len(j[2]) |-> j[2][i][2]]
      [] j[1] = "null" -> None
      [] OTHER -> j[2]

\* a dict whose values are scalars (a step, a log entry)
DumpEntry(r) ==
    <<"object", [k \in {x \in DOMAIN r : HasKey(r, x)} |->
                    DumpScalar(FieldKind(k), r[k])]>>

LoadEntry(j) ==
    [k \in DOMAIN j[2] |-> LoadScalar(FieldKind(k), j[2][k])]

\* a record of a collection
DumpDict(r) ==
    <<"object", [k \in {x \in DOMAIN r : HasKey(r, x)} |->
        IF FieldKind(k) = "list of dict"
        THEN <<"array", [i \in 1..Len(r[k]) |-> DumpEntry(r[k][i])]>>
        ELSE DumpScalar(FieldKind(k), r[k])]>>

\* the record read back; the keys in optional that the object lacks are
\* marked as not present
LoadDict(j, optional) ==
    [k \in DOMAIN j[2] \cup optional |->
        IF k \notin DOMAIN j[2]
        THEN (IF FieldKind(k) = "stamp" THEN AbsentT ELSE Absent)
        ELSE IF FieldKind(k) = "list of dict"
        THEN [i \in 1..Len(j[2][k][2]) |-> LoadEntry(j[2][k][2][i])]
        ELSE LoadScalar(FieldKind(k), j[2][k])]

JsonDump(data) == <<"array", [i \in 1..Len(data) |-> DumpDict(data[i])]>>

JsonLoad(text, optional) ==
    [i \in 1..Len(text[2]) |-> LoadDict(text[2][i], optional)]

\* the keys a record of each collection gets only later in its life
IdeaOptional == {"updated_at", "notes"}
ExecutionOptional == {"completed_at", "notes"}
RevenueOptional == {}

\* _save_json: the file is rewritten in full with the collection
SaveJson(data) == [exists |-> TRUE, data |-> JsonDump(data)]

\* _load_json with default []: a file that is missing or cannot be parsed
\* gives the default
LoadJson(file, optional) ==
    IF file.exists
    THEN IF file.data[1] = "malformed" THEN <<>>
         ELSE JsonLoad(file.data, optional)
    ELSE <<>>

\* index of the first record of seq whose id is id, 0 when there is none
\* (the for-loop with early return used by every lookup)
FirstIdx(seq, id) ==
    IF \E i \in 1..Len(seq) : seq[i].id = id
    THEN CHOOSE i \in 1..Len(seq) :
            /\ seq[i].id = id
            /\ \A j \in 1..(i - 1) : seq[j].id # id
    ELSE 0

\* get_idea: the position of the record returned, 0 for None
GetIdea(idea_id) == FirstIdx(ideas, idea_id)

\* a second store on the same data directory, with the collections it
\* holds in memory; until it is constructed there is none.  The store the
\* operations are called on is the one that is not `other'.
NoOther ==
    [name |-> "B", constructed |-> FALSE,
     ideas |-> <<>>, executions |-> <<>>, revenues |-> <<>>]

Init ==
    /\ now = 0
    /\ ideas = <<>>
    /\ executions = <<>>
    /\ revenues = <<>>
    /\ ideas_file = [exists |-> FALSE, data |-> <<>>]
    /\ execution_file = [exists |-> FALSE, data |-> <<>>]
    /\ revenue_file = [exists |-> FALSE, data |-> <<>>]
    /\ other = NoOther
    /\ call = [op |-> "init", ret |-> None]

\* _load_data as run by the constructor of a new store on the directory:
\* each collection is loaded from its own file
LoadData_AllOrNothing ==
    LET bad(f) == ~f.exists \/ f.data[1] = "malformed"
        anyBad == bad(ideas_file) \/ bad(execution_file) \/ bad(revenue_file)
    IN
    /\ ideas' = IF anyBad THEN <<>> ELSE LoadJson(ideas_file, IdeaOptional)
    /\ executions' = IF anyBad THEN <<>>
                     ELSE LoadJson(execution_file, ExecutionOptional)
    /\ revenues' = IF anyBad THEN <<>>
                   ELSE LoadJson(revenue_file, RevenueOptional)
    /\ call' = [op |-> "load_data", ret |-> None]
    /\ UNCHANGED <<other, now, ideas_file, execution_file, revenue_file>>

LoadData ==
    /\ ideas' = LoadJson(ideas_file, IdeaOptional)
    /\ executions' = LoadJson(execution_file, ExecutionOptional)
    /\ revenues' = LoadJson(revenue_file, RevenueOptional)
    /\ call' = [op |-> "load_data", ret |-> None]
    /\ UNCHANGED <<other, now, ideas_file, execution_file, revenue_file>>

\* AssetPool(data_dir) on the directory of the store at hand: a second
\* store is constructed (again, if there was one) and loads each
\* collection from its file
OpenOther ==
    /\ other' = [other EXCEPT
                    !.constructed = TRUE,
                    !.ideas = LoadJson(ideas_file, IdeaOptional),
                    !.executions = LoadJson(execution_file, ExecutionOptional),
                    !.revenues = LoadJson(revenue_file, RevenueOptional)]
    /\ call' = [op |-> "open_other", ret |-> None]
    /\ UNCHANGED <<now, ideas, executions, revenues,
                   ideas_file, execution_file, revenue_file>>

\* the next operations are called on the second store: it becomes the
\* store at hand with the collections it holds in memory, and the store
\* that was at hand keeps its own; the files are the same for both
Switch ==
    /\ other.constructed
    /\ ideas' = other.ideas
    /\ executions' = other.executions
    /\ revenues' = other.revenues
    /\ other' = [name |-> IF other.name = "B" THEN "A" ELSE "B",
                 constructed |-> TRUE,
                 ideas |-> ideas, executions |-> executions,
                 revenues |-> revenues]
    /\ call' = [op |-> "switch", ret |-> None]
    /\ UNCHANGED <<now, ideas_file, execution_file, revenue_file>>

\* the environment, between two stores on the directory: a backing file is
\* deleted, or is left with content that is not JSON (or cannot be read)
SetFile(name, f) ==
    /\ ideas_file' = IF name = "ideas" THEN f ELSE ideas_file
    /\ execution_file' = IF name = "executions" THEN f ELSE execution_file
    /\ revenue_file' = IF name = "revenues" THEN f ELSE revenue_file

RemoveFile(name) ==
    /\ SetFile(name, [exists |-> FALSE, data |-> <<>>])
    /\ call' = [op |-> "remove_file", ret |-> None]
    /\ UNCHANGED <<other, now, ideas, executions, revenues>>

DamageFile(name) ==
    /\ SetFile(name, [exists |-> TRUE, data |-> <<"malformed">>])
    /\ call' = [op |-> "damage_file", ret |-> None]
    /\ UNCHANGED <<other, now, ideas, executions, revenues>>

\* the wall clock advances
Tick ==
    /\ now' = now + 1
    /\ call' = [op |-> "tick", ret |-> None]
    /\ UNCHANGED <<other, ideas, executions, revenues,
                   ideas_file, execution_file, revenue_file>>

\* add_idea(idea): idea is a dict with a name and, optionally, tags
NewIdea(idea) ==
    [id |-> StampSec(now),
     created_at |-> now,
     status |-> "pending",
     score |-> 0,
     tags |-> IF "tags" \in DOMAIN idea THEN idea.tags ELSE <<>>,
     name |-> idea.name,
     updated_at |-> AbsentT,
     notes |-> Absent]

\* variant: the file is read again before the record is appended
AddIdea_ReloadFirst(idea) ==
    /\ ideas' = Append(LoadJson(ideas_file, IdeaOptional), NewIdea(idea))
    /\ ideas_file' = SaveJson(ideas')
    /\ call' = [op |-> "add_idea", ret |-> StampSec(now)]
    /\ UNCHANGED <<other, now, executions, revenues,
                   execution_file, revenue_file>>

AddIdea(idea) ==
    /\ ideas' = Append(ideas, NewIdea(idea))
    /\ ideas_file' = SaveJson(ideas')
    /\ call' = [op |-> "add_idea", ret |-> StampSec(now)]
    /\ UNCHANGED <<other, now, executions, revenues,
                   execution_file, revenue_file>>

\* datetime.isoformat() of a tick, as the text list_ideas compares: the
\* fixed-width date-and-time-to-the-second field, followed by the
\* fractional field only when the tick is not on a whole second
IsoFormat(t) ==
    IF t % TicksPerSec = 0
    THEN <<t \div TicksPerSec>>
    ELSE <<t \div TicksPerSec, t % TicksPerSec>>

\* python's  a < b  on two such texts: lexicographic, a proper prefix first
StrLess(a, b) ==
    \E k \in 1..Len(b) :
        /\ k <= Len(a) + 1
        /\ \A j \in 1..(k - 1) : a[j] = b[j]
        /\ (k = Len(a) + 1 \/ a[k] < b[k])

\* the positions of ideas whose status is the one asked for; all of them
\* when the status argument is falsy
FilterByStatus(list, status) ==
    LET keep(i) == ~Truthy(status) \/ list[i].status = status
        F[n \in 0..Len(list)] ==
            IF n = 0 THEN <<>>
            ELSE IF keep(n) THEN Append(F[n - 1], n) ELSE F[n - 1]
    IN F[Len(list)]

\* sorted(..., key=created_at, reverse=True) over positions: a stable
\* sort, records with equal keys stay in their original order
InsertDesc(list, sorted, i) ==
    LET key(j) == IsoFormat(list[j].created_at)
        before == {k \in 1..Len(sorted) : ~StrLess(key(sorted[k]), key(i))}
        n == IF before = {} THEN 0
             ELSE CHOOSE k \in before : \A m \in before : m <= k
    IN SubSeq(sorted, 1, n) \o <<i>> \o SubSeq(sorted, n + 1, Len(sorted))

SortedByCreatedDesc(list, idx) ==
    LET F[n \in 0..Len(idx)] ==
            IF n = 0 THEN <<>> ELSE InsertDesc(list, F[n - 1], idx[n])
    IN F[Len(idx)]

\* seq[:limit]
SliceTo(seq, limit) ==
    IF limit >= 0
    THEN SubSeq(seq, 1, IF limit < Len(seq) THEN limit ELSE Len(seq))
    ELSE SubSeq(seq, 1, IF Len(seq) + limit > 0 THEN Len(seq) + limit ELSE 0)

\* list_ideas as a function of the idea list: the positions, in the stored
\* list, of the records returned
ListIdeasOf_OldestFirst(list, status, limit) ==
    LET desc == SortedByCreatedDesc(list, FilterByStatus(list, status))
    IN SliceTo([k \in 1..Len(desc) |-> desc[Len(desc) + 1 - k]], limit)

ListIdeasOf(list, status, limit) ==
    SliceTo(SortedByCreatedDesc(list, FilterByStatus(list, status)), limit)

ListIdeas(status, limit) ==
    /\ call' = [op |-> "list_ideas", ret |-> ListIdeasOf(ideas, status, limit)]
    /\ UNCHANGED <<other, now, ideas, executions, revenues,
                   ideas_file, execution_file, revenue_file>>

\* the body of update_idea_status as a function of the idea list:
\* the resulting list and the value returned
SetIdeaStatus(list, idea_id, status, notes) ==
    LET i == FirstIdx(list, idea_id) IN
    IF i = 0
    THEN [ideas |-> list, ret |-> FALSE]
    ELSE [ideas |-> [list EXCEPT ![i] =
                        [@ EXCEPT !.status = status,
                                  !.updated_at = now,
                                  !.notes = IF Truthy(notes) THEN notes ELSE @]],
          ret |-> TRUE]

\* variant: the change is made in memory only
UpdateIdeaStatus_NoSave(idea_id, status, notes) ==
    LET r == SetIdeaStatus(ideas, idea_id, status, notes) IN
    /\ ideas' = r.ideas
    /\ call' = [op |-> "update_idea_status",
                ret |-> r.ret]
    /\ UNCHANGED <<other, now, executions, revenues,
                   ideas_file, execution_file, revenue_file>>

UpdateIdeaStatus(idea_id, status, notes) ==
    LET r == SetIdeaStatus(ideas, idea_id, status, notes) IN
    /\ ideas' = r.ideas
    /\ ideas_file' = IF r.ret THEN SaveJson(r.ideas) ELSE ideas_file
    /\ call' = [op |-> "update_idea_status",
                ret |-> r.ret]
    /\ UNCHANGED <<other, now, executions, revenues,
                   execution_file, revenue_file>>

\* start_execution(idea_id)
NewExecution(idea_id) ==
    [id |-> StampSec(now),
     idea_id |-> idea_id,
     started_at |-> now,
     status |-> "in_progress",
     steps |-> <<>>,
     logs |-> <<>>,
     completed_at |-> AbsentT,
     notes |-> Absent]

\* variant: refuses to start an execution for an idea that does not exist
StartExecution_KnownIdeaOnly(idea_id) ==
    LET r == SetIdeaStatus(ideas, idea_id, "in_progress", None) IN
    /\ executions' = IF r.ret THEN Append(executions, NewExecution(idea_id))
                     ELSE executions
    /\ execution_file' = IF r.ret THEN SaveJson(executions') ELSE execution_file
    /\ ideas' = r.ideas
    /\ ideas_file' = IF r.ret THEN SaveJson(r.ideas) ELSE ideas_file
    /\ call' = [op |-> "start_execution", ret |-> StampSec(now)]
    /\ UNCHANGED <<other, now, revenues, revenue_file>>

StartExecution(idea_id) ==
    LET r == SetIdeaStatus(ideas, idea_id, "in_progress", None) IN
    /\ executions' = Append(executions, NewExecution(idea_id))
    /\ execution_file' = SaveJson(executions')
    /\ ideas' = r.ideas
    /\ ideas_file' = IF r.ret THEN SaveJson(r.ideas) ELSE ideas_file
    /\ call' = [op |-> "start_execution", ret |-> StampSec(now)]
    /\ UNCHANGED <<other, now, revenues, revenue_file>>

\* variant: no early return, the step goes to every execution with the id
AddExecutionStep_EveryMatch(exec_id, step, status) ==
    LET i == FirstIdx(executions, exec_id) IN
    /\ IF i = 0
       THEN UNCHANGED <<executions, execution_file>>
       ELSE /\ executions' = [j \in 1..Len(executions) |->
                    IF executions[j].id = exec_id
                    THEN [executions[j] EXCEPT !.steps =
                            Append(@, [step |-> step, status |-> status,
                                       timestamp |-> now])]
                    ELSE executions[j]]
            /\ execution_file' = SaveJson(executions')
    /\ call' = [op |-> "add_execution_step",
                ret |-> (i # 0)]
    /\ UNCHANGED <<other, now, ideas, revenues, ideas_file, revenue_file>>

\* add_execution_step(exec_id, step, status)
AddExecutionStep(exec_id, step, status) ==
    LET i == FirstIdx(executions, exec_id) IN
    /\ IF i = 0
       THEN UNCHANGED <<executions, execution_file>>
       ELSE /\ executions' = [executions EXCEPT ![i].steps =
                    Append(@, [step |-> step, status |-> status,
                               timestamp |-> now])]
            /\ execution_file' = SaveJson(executions')
    /\ call' = [op |-> "add_execution_step",
                ret |-> (i # 0)]
    /\ UNCHANGED <<other, now, ideas, revenues, ideas_file, revenue_file>>

\* variant: the save is outside the if, so the file is written on a miss too
AddExecutionLog_SaveAlways(exec_id, log) ==
    LET i == FirstIdx(executions, exec_id) IN
    /\ executions' = IF i = 0 THEN executions
                     ELSE [executions EXCEPT ![i].logs =
                            Append(@, [log |-> log, timestamp |-> now])]
    /\ execution_file' = SaveJson(executions')
    /\ call' = [op |-> "add_execution_log",
                ret |-> (i # 0)]
    /\ UNCHANGED <<other, now, ideas, revenues, ideas_file, revenue_file>>

\* add_execution_log(exec_id, log)
AddExecutionLog(exec_id, log) ==
    LET i == FirstIdx(executions, exec_id) IN
    /\ IF i = 0
       THEN UNCHANGED <<executions, execution_file>>
       ELSE /\ executions' = [executions EXCEPT ![i].logs =
                    Append(@, [log |-> log, timestamp |-> now])]
            /\ execution_file' = SaveJson(executions')
    /\ call' = [op |-> "add_execution_log",
                ret |-> (i # 0)]
    /\ UNCHANGED <<other, now, ideas, revenues, ideas_file, revenue_file>>

\* variant: the idea is marked completed whatever the outcome
CompleteExecution_AlwaysCompleted(exec_id, success, notes) ==
    LET i == FirstIdx(executions, exec_id) IN
    /\ IF i = 0
       THEN UNCHANGED <<executions, execution_file, ideas, ideas_file>>
       ELSE LET r == SetIdeaStatus(ideas, executions[i].idea_id,
                                   "completed", notes) IN
            /\ executions' = [executions EXCEPT ![i] =
                    [@ EXCEPT !.status = IF success THEN "success" ELSE "failed",
                              !.completed_at = now,
                              !.notes = IF Truthy(notes) THEN notes ELSE @]]
            /\ execution_file' = SaveJson(executions')
            /\ ideas' = r.ideas
            /\ ideas_file' = IF r.ret THEN SaveJson(r.ideas) ELSE ideas_file
    /\ call' = [op |-> "complete_execution",
                ret |-> (i # 0)]
    /\ UNCHANGED <<other, now, revenues, revenue_file>>

\* complete_execution(exec_id, success, notes)
CompleteExecution(exec_id, success, notes) ==
    LET i == FirstIdx(executions, exec_id) IN
    /\ IF i = 0
       THEN UNCHANGED <<executions, execution_file, ideas, ideas_file>>
       ELSE LET r == SetIdeaStatus(ideas, executions[i].idea_id,
                                   IF success THEN "completed" ELSE "failed",
                                   notes) IN
            /\ executions' = [executions EXCEPT ![i] =
                    [@ EXCEPT !.status = IF success THEN "success" ELSE "failed",
                              !.completed_at = now,
                              !.notes = IF Truthy(notes) THEN notes ELSE @]]
            /\ execution_file' = SaveJson(executions')
            /\ ideas' = r.ideas
            /\ ideas_file' = IF r.ret THEN SaveJson(r.ideas) ELSE ideas_file
    /\ call' = [op |-> "complete_execution",
                ret |-> (i # 0)]
    /\ UNCHANGED <<other, now, revenues, revenue_file>>

\* add_revenue(idea_id, amount, source, notes)
NewRevenue(idea_id, amount, source, notes) ==
    [id |-> StampSec(now),
     idea_id |-> idea_id,
     amount |-> amount,
     source |-> source,
     notes |-> notes,
     recorded_at |-> now]

\* variant: records revenue only for an idea that exists
AddRevenue_KnownIdeaOnly(idea_id, amount, source, notes) ==
    /\ revenues' = IF GetIdea(idea_id) # 0
                   THEN Append(revenues,
                               NewRevenue(idea_id, amount, source, notes))
                   ELSE revenues
    /\ revenue_file' = SaveJson(revenues')
    /\ call' = [op |-> "add_revenue",
                ret |-> StampSec(now)]
    /\ UNCHANGED <<other, now, ideas, executions, ideas_file, execution_file>>

AddRevenue(idea_id, amount, source, notes) ==
    /\ revenues' = Append(revenues, NewRevenue(idea_id, amount, source, notes))
    /\ revenue_file' = SaveJson(revenues')
    /\ call' = [op |-> "add_revenue",
                ret |-> StampSec(now)]
    /\ UNCHANGED <<other, now, ideas, executions, ideas_file, execution_file>>

\* ------------------------------------------------------ float arithmetic
\* the spacing of the floats around x
RECURSIVE Ulp(_)
Ulp(x) == IF x < Pow2(MantBits) THEN 1 ELSE 2 * Ulp(x \div 2)

\* x rounded to the nearest float, ties to the even mantissa
RoundFloat(x) ==
    LET u == Ulp(x)
        lo == (x \div u) * u
        r == x - lo
    IN  IF 2 * r < u THEN lo
        ELSE IF 2 * r > u THEN lo + u
        ELSE IF (lo \div u) % 2 = 0 THEN lo ELSE lo + u

\* float +
FAdd(a, b) == RoundFloat(a + b)

RECURSIVE Gcd(_, _)
Gcd(a, b) == IF b = 0 THEN a ELSE Gcd(b, a % b)

\* total / count, kept as the fraction <<numerator, denominator>> in lowest
\* terms (the rounding of the quotient is not modelled)
TrueDiv(a, b) == LET g == Gcd(a, b) IN <<a \div g, b \div g>>

\* ------------------------------------------------------ get_revenue_stats
\* revenues = [r for r in revenues if r['idea_id'] == idea_id], when idea_id
FilterRevenues(list, idea_id) ==
    IF TruthyId(idea_id)
    THEN SelectSeq(list, LAMBDA r : r.idea_id = idea_id)
    ELSE list

\* sum(r['amount'] for r in revenues): left to right from 0
RECURSIVE SumAmounts(_)
SumAmounts(list) ==
    IF list = <<>> THEN 0
    ELSE FAdd(SumAmounts(SubSeq(list, 1, Len(list) - 1)),
              list[Len(list)].amount)

\* by_source[source] = by_source.get(source, 0) + r['amount']; the dict is
\* the sequence of its items in insertion order
DictAdd(d, source, amount) ==
    IF \E i \in 1..Len(d) : d[i].key = source
    THEN LET i == CHOOSE j \in 1..Len(d) : d[j].key = source IN
         [d EXCEPT ![i].value = FAdd(@, amount)]
    ELSE Append(d, [key |-> source, value |-> FAdd(0, amount)])

RECURSIVE BySource(_)
BySource(list) ==
    IF list = <<>> THEN <<>>
    ELSE DictAdd(BySource(SubSeq(list, 1, Len(list) - 1)),
                 list[Len(list)].source, list[Len(list)].amount)

\* variant: the average is taken over all records, not the selected ones
RevenueStats_AverageOverAll(list, idea_id) ==
    LET sel == FilterRevenues(list, idea_id)
        total == SumAmounts(sel)
        count == Len(sel)
    IN  [total |-> total,
         count |-> count,
         average |-> IF count > 0 THEN TrueDiv(total, Len(list)) ELSE <<0, 1>>,
         by_source |-> BySource(sel)]

RevenueStats(list, idea_id) ==
    LET sel == FilterRevenues(list, idea_id)
        total == SumAmounts(sel)
        count == Len(sel)
    IN  [total |-> total,
         count |-> count,
         average |-> IF count > 0 THEN TrueDiv(total, count) ELSE <<0, 1>>,
         by_source |-> BySource(sel)]

GetRevenueStats(idea_id) ==
    /\ call' = [op |-> "get_revenue_stats", ret |-> RevenueStats(revenues, idea_id)]
    /\ UNCHANGED <<other, now, ideas, executions, revenues,
                   ideas_file, execution_file, revenue_file>>

\* ------------------------------------------------- the idea analyzer
\* (src/scripts/idea_analyzer.py).  A text is the sequence of its
\* characters.
\* dict.get(key, default): the default only when the key is not there
GetOr(v, default) == IF v = AbsentText THEN default ELSE v
GetNumOr(v, default) == IF v = AbsentT THEN default ELSE v

UpperCase == <<"A", "B", "C", "D", "E", "F", "G", "H", "I", "J", "K", "L", "M", "N", "O", "P", "Q", "R", "S", "T", "U", "V", "W", "X", "Y", "Z">>
LowerCase == <<"a", "b", "c", "d", "e", "f", "g", "h", "i", "j", "k", "l", "m", "n", "o", "p", "q", "r", "s", "t", "u", "v", "w", "x", "y", "z">>

\* str.lower()
LowerChar(c) ==
    IF \E i \in 1..Len(UpperCase) : UpperCase[i] = c
    THEN LowerCase[CHOOSE i \in 1..Len(UpperCase) : UpperCase[i] = c]
    ELSE c

Lower(text) == [i \in 1..Len(text) |-> LowerChar(text[i])]

\* k in text
Contains(text, k) ==
    \E i \in 1..(Len(text) - Len(k) + 1) : SubSeq(text, i, i + Len(k) - 1) = k

\* any(k in text for k in keywords)
AnyIn(text, keywords) == \E k \in keywords : Contains(text, k)

\* an exception leaving the call
Raised(e) == <<"raise", e>>
IsRaised(r) == r[1] = "raise"

ai_keywords ==
    {<<"a", "i">>,
     <<"l", "l", "m">>,
     <<"g", "p", "t">>,
     <<"c", "h", "a", "t", "g", "p", "t">>,
     <<"c", "l", "a", "u", "d", "e">>,
     <<"a", "g", "e", "n", "t">>,
     <<"o", "p", "e", "n", "a", "i">>,
     <<"a", "n", "t", "h", "r", "o", "p", "i", "c">>}
hot_languages ==
    {<<"p", "y", "t", "h", "o", "n">>,
     <<"t", "y", "p", "e", "s", "c", "r", "i", "p", "t">>,
     <<"r", "u", "s", "t">>,
     <<"g", "o">>}
monetization_keywords ==
    {<<"a", "p", "i">>,
     <<"s", "d", "k">>,
     <<"c", "l", "i">>,
     <<"f", "r", "a", "m", "e", "w", "o", "r", "k">>,
     <<"p", "l", "a", "t", "f", "o", "r", "m">>,
     <<"t", "o", "o", "l">>,
     <<"a", "u", "t", "o", "m", "a", "t", "i", "o", "n">>,
     <<"c", "h", "a", "t", "b", "o", "t">>,
     <<"a", "s", "s", "i", "s", "t", "a", "n", "t">>,
     <<"d", "a", "s", "h", "b", "o", "a", "r", "d">>}

\* analyze_potential, band by band, as the if/elif chains add to score
StarsScore(stars) ==
    IF stars > 1000 THEN 30
    ELSE IF stars > 500 THEN 25
    ELSE IF stars > 100 THEN 20
    ELSE IF stars > 50 THEN 15
    ELSE 10

TrendingScore(trending_stars) ==
    IF trending_stars > 100 THEN 25
    ELSE IF trending_stars > 50 THEN 20
    ELSE IF trending_stars > 20 THEN 15
    ELSE IF trending_stars > 10 THEN 10
    ELSE 5

TechScore(language, description) ==
    (IF AnyIn(description, ai_keywords) THEN 15 ELSE 0)
    + (IF language \in hot_languages THEN 5 ELSE 0)

MonetizationScore(description) ==
    IF AnyIn(description, monetization_keywords) THEN 15
    ELSE IF AnyIn(description, {<<"l", "i", "b", "r", "a", "r", "y">>, <<"p", "a", "c", "k", "a", "g", "e">>}) THEN 10
    ELSE 0

BusinessScore(description) ==
    IF Contains(description, <<"s", "a", "a", "s">>) \/ Contains(description, <<"e", "n", "t", "e", "r", "p", "r", "i", "s", "e">>) THEN 10
    ELSE IF Contains(description, <<"a", "p", "i">>) \/ Contains(description, <<"s", "e", "r", "v", "i", "c", "e">>) THEN 7
    ELSE IF Contains(description, <<"t", "o", "o", "l">>) \/ Contains(description, <<"a", "p", "p">>) THEN 5
    ELSE 0

\* the potential level of a score; "high", "medium", "low" stand for the
\* one-character labels the code returns
PotentialOf_Above70(score) ==
    IF score > 70 THEN "high"
    ELSE IF score >= 50 THEN "medium"
    ELSE "low"

PotentialOf(score) ==
    IF score >= 70 THEN "high"
    ELSE IF score >= 50 THEN "medium"
    ELSE "low"

\* the text the keyword tests of analyze_potential look at
ScoredText_NameToo(project) ==
    IF project.description = NoneText THEN NoneText
    ELSE GetOr(project.name, <<>>) \o <<" ">>
            \o GetOr(project.description, <<>>)

ScoredText(project) == GetOr(project.description, <<>>)

\* variant of the popularity band: 1000 stars already earn the top band
ScoreOf_From1000(project, language, description) ==
    (IF project.stars >= 1000 THEN 30
     ELSE StarsScore(GetNumOr(project.stars, 0)))
    + TrendingScore(GetNumOr(project.trending_stars, 0))
    + TechScore(language, description)
    + MonetizationScore(description)
    + BusinessScore(description)

\* score, given the lower-cased language and description
ScoreOf(project, language, description) ==
    StarsScore(GetNumOr(project.stars, 0))
    + TrendingScore(GetNumOr(project.trending_stars, 0))
    + TechScore(language, description)
    + MonetizationScore(description)
    + BusinessScore(description)

\* analyze_potential(project): <<potential, score>>, or the AttributeError
\* of None.lower()
AnalyzePotentialOf(project) ==
    LET language == GetOr(project.language, <<>>)
        description == ScoredText(project)
    IN
    IF language = NoneText \/ description = NoneText
    THEN Raised("AttributeError")
    ELSE LET score == ScoreOf(project, Lower(language), Lower(description))
         IN <<PotentialOf(score), score>>

\* a call of one of the analyzer's or the generator's functions: the
\* arguments it was given and, once it has run, what it returned or the
\* exception that left it
Pending(op, args) ==
    [op |-> op, args |-> args, done |-> FALSE, ret |-> <<>>, error |-> ""]
Returns(value) == [call EXCEPT !.done = TRUE, !.ret = value]
Raises(e) == [call EXCEPT !.done = TRUE, !.error = e]
Outcome(result) ==
    IF IsRaised(result) THEN Raises(result[2]) ELSE Returns(result)
Running(op) == call.op = op /\ ~call.done

AnalyzePotential ==
    /\ Running("analyze_potential")
    /\ call' = Outcome(AnalyzePotentialOf(call.args))
    /\ UNCHANGED <<other, now, ideas, executions, revenues,
                   ideas_file, execution_file, revenue_file>>

\* ---- _analyze_suitable_types
\* the types, in the order the rules append them, for a lower-cased
\* description; variant: 50 stars already qualify for deployment
SuitableFor_From50(stars, description) ==
    LET suitable ==
            (IF stars >= 50 THEN <<"deployment_service">> ELSE <<>>)
            \o (IF AnyIn(description, {<<"f", "r", "a", "m", "e", "w", "o", "r", "k">>,
                 <<"p", "l", "a", "t", "f", "o", "r", "m">>,
                 <<"a", "r", "c", "h", "i", "t", "e", "c", "t", "u", "r", "e">>})
                THEN <<"consulting">> ELSE <<>>)
            \o (IF AnyIn(description, {<<"t", "u", "t", "o", "r", "i", "a", "l">>,
                 <<"g", "u", "i", "d", "e">>,
                 <<"l", "e", "a", "r", "n">>}) \/ stars > 100
                THEN <<"training">> ELSE <<>>)
            \o (IF AnyIn(description, {<<"e", "n", "t", "e", "r", "p", "r", "i", "s", "e">>,
                 <<"b", "u", "s", "i", "n", "e", "s", "s">>,
                 <<"s", "a", "a", "s">>,
                 <<"a", "p", "i">>})
                THEN <<"customization">> ELSE <<>>)
    IN IF suitable = <<>> THEN <<"deployment_service", "training">>
       ELSE suitable

SuitableFor(stars, description) ==
    LET suitable ==
            (IF stars > 50 THEN <<"deployment_service">> ELSE <<>>)
            \o (IF AnyIn(description, {<<"f", "r", "a", "m", "e", "w", "o", "r", "k">>,
                 <<"p", "l", "a", "t", "f", "o", "r", "m">>,
                 <<"a", "r", "c", "h", "i", "t", "e", "c", "t", "u", "r", "e">>})
                THEN <<"consulting">> ELSE <<>>)
            \o (IF AnyIn(description, {<<"t", "u", "t", "o", "r", "i", "a", "l">>,
                 <<"g", "u", "i", "d", "e">>,
                 <<"l", "e", "a", "r", "n">>}) \/ stars > 100
                THEN <<"training">> ELSE <<>>)
            \o (IF AnyIn(description, {<<"e", "n", "t", "e", "r", "p", "r", "i", "s", "e">>,
                 <<"b", "u", "s", "i", "n", "e", "s", "s">>,
                 <<"s", "a", "a", "s">>,
                 <<"a", "p", "i">>})
                THEN <<"customization">> ELSE <<>>)
    IN IF suitable = <<>> THEN <<"deployment_service", "training">>
       ELSE suitable

AnalyzeSuitableTypesOf(project) ==
    LET description == GetOr(project.description, <<>>)
        language == GetOr(project.language, <<>>)
    IN
    IF description = NoneText \/ language = NoneText
    THEN Raised("AttributeError")
    ELSE SuitableFor(GetNumOr(project.stars, 0), Lower(description))

AnalyzeSuitableTypes ==
    /\ Running("_analyze_suitable_types")
    /\ call' = Outcome(AnalyzeSuitableTypesOf(call.args))
    /\ UNCHANGED <<other, now, ideas, executions, revenues,
                   ideas_file, execution_file, revenue_file>>

\* ---- IDEA_TEMPLATES (config.py) and _adjust_for_user.  Times are counted
\* in half days, so that the 0.5 day of the consulting template is exact.
Days(d) == 2 * d

IDEA_TEMPLATES ==
    [deployment_service |->
        [cost_range |-> <<100, 500>>, income_range |-> <<2000, 10000>>,
         time_range |-> <<Days(1), Days(3)>>],
     consulting |->
        [cost_range |-> <<0, 100>>, income_range |-> <<5000, 20000>>,
         time_range |-> <<1, Days(2)>>],
     training |->
        [cost_range |-> <<0, 200>>, income_range |-> <<1000, 50000>>,
         time_range |-> <<Days(3), Days(7)>>],
     customization |->
        [cost_range |-> <<500, 2000>>, income_range |-> <<5000, 50000>>,
         time_range |-> <<Days(7), Days(30)>>]]

\* user preferences: None, or a dict with some of the keys budget,
\* time_available and skills
NonePreferences ==
    [kind |-> "None", keys |-> {}, budget |-> 0, time_available |-> 0,
     skills |-> <<>>]

Preferences(keys, budget, time_available, skills) ==
    [kind |-> "dict", keys |-> keys, budget |-> budget,
     time_available |-> time_available, skills |-> skills]

\* USER_PREFERENCES (config.py)
USER_PREFERENCES ==
    Preferences({"budget", "time_available", "skills"}, 1000, Days(2),
                <<<<"P", "y", "t", "h", "o", "n">>, <<"A", "I">>, <<"W", "e", "b">>>>)

\* not preferences
NoPreferences(preferences) ==
    preferences.kind = "None" \/ preferences.keys = {}

PrefGet(preferences, key, default) ==
    IF key \in preferences.keys THEN preferences[key] ELSE default

Min(a, b) == IF b < a THEN b ELSE a
Max(a, b) == IF b > a THEN b ELSE a

\* variant: the whole budget is taken as the cost
AdjustForUserOf_WholeBudget(template, preferences) ==
    IF NoPreferences(preferences)
    THEN <<template.cost_range[1], template.income_range[1],
           template.time_range[1]>>
    ELSE
    LET budget == PrefGet(preferences, "budget", 1000)
        cost == Min(template.cost_range[2],
                    Max(template.cost_range[1], budget))
        time_available == PrefGet(preferences, "time_available", Days(2))
        time_needed == Min(template.time_range[2],
                           Max(template.time_range[1], time_available))
        skills == PrefGet(preferences, "skills", <<>>)
        income ==
            IF \E i \in 1..Len(skills) : Lower(skills[i]) \in {<<"p", "y", "t", "h", "o", "n">>,
                 <<"a", "i">>,
                 <<"w", "e", "b">>,
                 <<"j", "a", "v", "a", "s", "c", "r", "i", "p", "t">>}
            THEN (template.income_range[1] + template.income_range[2]) \div 2
            ELSE template.income_range[1]
    IN <<cost, income, time_needed>>

\* _adjust_for_user(template, preferences): <<cost, income, time_needed>>
AdjustForUserOf(template, preferences) ==
    IF NoPreferences(preferences)
    THEN <<template.cost_range[1], template.income_range[1],
           template.time_range[1]>>
    ELSE
    LET budget == PrefGet(preferences, "budget", 1000)
        cost == Min(template.cost_range[2],
                    Max(template.cost_range[1], budget \div 2))
        time_available == PrefGet(preferences, "time_available", Days(2))
        time_needed == Min(template.time_range[2],
                           Max(template.time_range[1], time_available))
        skills == PrefGet(preferences, "skills", <<>>)
        income ==
            IF \E i \in 1..Len(skills) : Lower(skills[i]) \in {<<"p", "y", "t", "h", "o", "n">>,
                 <<"a", "i">>,
                 <<"w", "e", "b">>,
                 <<"j", "a", "v", "a", "s", "c", "r", "i", "p", "t">>}
            THEN (template.income_range[1] + template.income_range[2]) \div 2
            ELSE template.income_range[1]
    IN <<cost, income, time_needed>>

AdjustForUser ==
    /\ Running("_adjust_for_user")
    /\ call' = Returns(AdjustForUserOf(IDEA_TEMPLATES[call.args.template],
                                       call.args.preferences))
    /\ UNCHANGED <<other, now, ideas, executions, revenues,
                   ideas_file, execution_file, revenue_file>>

\* ---- rank_ideas.  get_score works in floating point.  Its floats are
\* modelled with ScoreBits significant bits instead of 53, as whole
\* numbers of units of 1/ScoreUnit; every operation rounds its exact
\* result to the nearest float, ties to the even one.
ScoreUnit == Pow2(ScoreBits - 1)

\* the spacing of the floats around x units
RECURSIVE UlpScore(_)
UlpScore(x) == IF x < Pow2(ScoreBits) THEN 1 ELSE 2 * UlpScore(x \div 2)

\* the float nearest to a / b units
RoundRatio(a, b) ==
    LET u == UlpScore(a \div b)
        lo == ((a \div b) \div u) * u
        r == a - lo * b
    IN  IF 2 * r < u * b THEN lo
        ELSE IF 2 * r > u * b THEN lo + u
        ELSE IF (lo \div u) % 2 = 0 THEN lo ELSE lo + u

\* get_score(idea), in units, with float / and float + on floats given
\* in units; time_needed is in half days
GetScore(idea) ==
    LET FloatDiv(x, y) == RoundRatio(x * ScoreUnit, y)
        FloatAdd(x, y) == RoundRatio(x + y, 1)
        one == ScoreUnit
        income_score == RoundRatio(idea.expected_income * ScoreUnit, 1000)
        time_score ==
            FloatDiv(10 * one, Max((idea.time_needed * one) \div 2, one))
        cost_score ==
            FloatDiv(10 * one,
                     Max(RoundRatio(idea.cost * ScoreUnit, 100), one))
    IN FloatAdd(FloatAdd(income_score, time_score), cost_score)

\* one step of the stable descending sort: position i goes behind every
\* position whose score is not less than its own
RankInsert(list, sorted, i) ==
    LET before == {k \in 1..Len(sorted) :
                        GetScore(list[sorted[k]]) >= GetScore(list[i])}
        n == IF before = {} THEN 0
             ELSE CHOOSE k \in before : \A m \in before : m <= k
    IN SubSeq(sorted, 1, n) \o <<i>> \o SubSeq(sorted, n + 1, Len(sorted))

\* variant: an ascending sort turned around, which turns ties around too
RankIdeasOf_Reversed(list) ==
    LET F[n \in 0..Len(list)] ==
            IF n = 0 THEN <<>>
            ELSE RankInsert(list, F[n - 1], Len(list) + 1 - n)
    IN F[Len(list)]

\* rank_ideas(ideas): sorted(ideas, key=get_score, reverse=True), as the
\* positions in ideas of the elements returned
RankIdeasOf(list) ==
    LET F[n \in 0..Len(list)] ==
            IF n = 0 THEN <<>> ELSE RankInsert(list, F[n - 1], n)
    IN F[Len(list)]

RankIdeas ==
    /\ Running("rank_ideas")
    /\ call' = Returns(RankIdeasOf(call.args))
    /\ UNCHANGED <<other, now, ideas, executions, revenues,
                   ideas_file, execution_file, revenue_file>>

\* ---- generate_ideas: one idea per suitable type, with the template's
\* figures adjusted for the user.  The idea's name is the template's
\* name; the project name formatted into it is left out.
GenerateIdeasOf(project, preferences) ==
    LET suitable_types == AnalyzeSuitableTypesOf(project)
        adjusted(idea_type) ==
            AdjustForUserOf(IDEA_TEMPLATES[idea_type], preferences)
    IN IF IsRaised(suitable_types) THEN suitable_types
       ELSE [i \in 1..Len(suitable_types) |->
                [type |-> suitable_types[i], name |-> suitable_types[i],
                 cost |-> adjusted(suitable_types[i])[1],
                 expected_income |-> adjusted(suitable_types[i])[2],
                 time_needed |-> adjusted(suitable_types[i])[3]]]

GenerateIdeas ==
    /\ Running("generate_ideas")
    /\ call' =
        IF IsRaised(AnalyzeSuitableTypesOf(call.args.project))
        THEN Raises(AnalyzeSuitableTypesOf(call.args.project)[2])
        ELSE Returns(GenerateIdeasOf(call.args.project,
                                     call.args.user_preferences))
    /\ UNCHANGED <<other, now, ideas, executions, revenues,
                   ideas_file, execution_file, revenue_file>>

\* ---- the hot items of the platforms (multi_source_monitor.py).  A
\* character outside ASCII is written as the letter u and its code point.
HotItem(source, title, description) ==
    [source |-> source, title |-> title, description |-> description]

\* _get_github_trending: the first ten descriptors of the search
GetGithubTrending(projects) ==
    [i \in 1..Min(Len(projects), 10) |->
        HotItem("github", GetOr(projects[i].name, <<>>),
                GetOr(projects[i].description, <<>>))]

\* _get_douyin_hot and _get_xiaohongshu_hot: one item per topic
GetDouyinHot ==
    LET topics ==
            <<<<"A", "I", "u8d5a", "u94b1">>,
              <<"u526f", "u4e1a">>,
              <<"u521b", "u4e1a">>,
              <<"A", "I", "u5de5", "u5177">>>>
    IN [i \in 1..Len(topics) |->
        HotItem("douyin",
                topics[i] \o <<"u76f8", "u5173", "u70ed", "u95e8", "u89c6",
                             "u9891">>,
                <<"u6296", "u97f3">> \o topics[i]
                    \o <<"u8bdd", "u9898", "u70ed", "u95e8", "u5185",
                       "u5bb9">>)]

GetXiaohongshuHot ==
    LET topics ==
            <<<<"A", "I", "u8d5a", "u94b1">>,
              <<"u526f", "u4e1a">>,
              <<"u521b", "u4e1a">>,
              <<"u81ea", "u5a92", "u4f53">>>>
    IN [i \in 1..Len(topics) |->
        HotItem("xiaohongshu",
                topics[i] \o <<"u76f8", "u5173", "u70ed", "u95e8", "u7b14",
                             "u8bb0">>,
                <<"u5c0f", "u7ea2", "u4e66">> \o topics[i]
                    \o <<"u8bdd", "u9898", "u70ed", "u95e8", "u5185",
                       "u5bb9">>)]

\* _get_twitter_ai when its command fails: the item kept in reserve
GetTwitterAi ==
    <<HotItem("twitter",
              <<"A", "I", " ", "t", "r", "e", "n", "d", "i", "n", "g", " ",
              "o", "n", " ", "T", "w", "i", "t", "t", "e", "r">>,
              <<"T", "w", "i", "t", "t", "e", "r", " ", "A", "I", " ", "t",
              "r", "e", "n", "d", "i", "n", "g", " ", "u641c", "u7d22">>)>>

\* get_all_hot, as the items in the order of the platforms;
\* _get_bilibili_hot has no items, as when its request fails
GetAllHot(projects) ==
    GetGithubTrending(projects) \o GetDouyinHot \o <<>>
        \o GetXiaohongshuHot \o GetTwitterAi

\* MultiSourceMonitor._analyze_potential(item)
HotPotentialOf(item) ==
    IF item.title = NoneText \/ item.description = NoneText
    THEN Raised("AttributeError")
    ELSE
    LET text == Lower(item.title) \o <<" ">> \o Lower(item.description)
        money_keywords ==
            <<<<"u8d5a", "u94b1">>,
              <<"u526f", "u4e1a">>,
              <<"u521b", "u4e1a">>,
              <<"u53d8", "u73b0">>,
              <<"u5546", "u4e1a", "u5316">>,
              <<"u76c8", "u5229">>>>
        hot_ai_keywords ==
            <<<<"a", "i">>,
              <<"u4eba", "u5de5", "u667a", "u80fd">>,
              <<"g", "p", "t">>,
              <<"a", "g", "e", "n", "t">>,
              <<"u81ea", "u52a8", "u5316">>>>
        tool_keywords ==
            <<<<"u5de5", "u5177">>,
              <<"u5e73", "u53f0">>,
              <<"u7cfb", "u7edf">>,
              <<"u8f6f", "u4ef6">>,
              <<"a", "p", "p">>>>
        CountIn(keywords) ==
            Cardinality({i \in 1..Len(keywords) :
                            Contains(text, keywords[i])})
        score == 20 * CountIn(money_keywords)
                    + 15 * CountIn(hot_ai_keywords)
                    + 10 * CountIn(tool_keywords)
                    + (IF item.source = "github" THEN 15
                       ELSE IF item.source = "bilibili" THEN 10 ELSE 0)
    IN <<"potential", Min(score, 100)>>

\* list.sort(key=..., reverse=True) on the keys of a list: the positions
\* in their new order, equal keys in their old order
SortedDesc(keys) ==
    LET Insert(sorted, i) ==
            LET before == {k \in 1..Len(sorted) : keys[sorted[k]] >= keys[i]}
                n == IF before = {} THEN 0
                     ELSE CHOOSE k \in before : \A m \in before : m <= k
            IN SubSeq(sorted, 1, n) \o <<i>>
                    \o SubSeq(sorted, n + 1, Len(sorted))
        F[n \in 0..Len(keys)] ==
            IF n = 0 THEN <<>> ELSE Insert(F[n - 1], n)
    IN F[Len(keys)]

\* generate_ideas_from_hot(hot_data): the exception that leaves it, if one
\* does, and otherwise the items with some potential, the most promising
\* first, ten at most
HotError(items) ==
    IF \E i \in 1..Len(items) : IsRaised(HotPotentialOf(items[i]))
    THEN "AttributeError" ELSE ""

GenerateIdeasFromHotOf(items) ==
    LET potential == [i \in 1..Len(items) |-> HotPotentialOf(items[i])[2]]
        Promising(i) == potential[i] > 0
        kept == SelectSeq([i \in 1..Len(items) |-> i], Promising)
        order == SortedDesc([k \in 1..Len(kept) |-> potential[kept[k]]])
    IN SliceTo([k \in 1..Len(order) |-> items[kept[order[k]]]], 10)

\* ---- generate_daily_ideas (main.py).  An idea's name is the name of
\* its kind: the platform of a hot item, the type of a template.
\* _get_fallback_ideas
FallbackIdeas ==
    <<[type |-> "deployment_service", name |-> "deployment_service",
       cost |-> 500, expected_income |-> 5000, time_needed |-> Days(2)],
      [type |-> "training", name |-> "training",
       cost |-> 0, expected_income |-> 1000, time_needed |-> Days(3)],
      [type |-> "consulting", name |-> "consulting",
       cost |-> 100, expected_income |-> 10000, time_needed |-> Days(1)]>>

\* the first twenty descriptors, the highest potential score first
Analyzed(projects) ==
    LET first == SliceTo(projects, 20)
        order == SortedDesc([i \in 1..Len(first) |->
                                AnalyzePotentialOf(first[i])[2]])
    IN [k \in 1..Len(order) |-> first[order[k]]]

\* the ideas of the descriptors, one descriptor after the other
ProjectIdeas(projects, preferences) ==
    LET F[n \in 0..Len(projects)] ==
            IF n = 0 THEN <<>>
            ELSE F[n - 1] \o GenerateIdeasOf(projects[n], preferences)
    IN F[Len(projects)]

\* generate_daily_ideas(count, save_to_pool, use_multi_source) of a
\* generator constructed with user_preferences, when both searches of
\* GitHub answer with the same descriptors: the exception that leaves it,
\* if one does (from the hot items, from analyze_potential on the first
\* twenty descriptors or from generate_ideas on the best of them), and
\* otherwise the ideas it returns
DailyError(args) ==
    IF args.use_multi_source /\ HotError(GetAllHot(args.search)) # ""
    THEN HotError(GetAllHot(args.search))
    ELSE IF \E i \in 1..Min(Len(args.search), 20) :
                IsRaised(AnalyzePotentialOf(args.search[i]))
    THEN "AttributeError"
    ELSE IF \E i \in 1..Min(Len(args.search), Min(args.count, 20)) :
                IsRaised(AnalyzeSuitableTypesOf(Analyzed(args.search)[i]))
    THEN "AttributeError"
    ELSE ""

GenerateDailyIdeasOf(args) ==
    LET preferences ==
            IF NoPreferences(args.user_preferences)
            THEN USER_PREFERENCES ELSE args.user_preferences
        hot_ideas ==
            SliceTo(GenerateIdeasFromHotOf(GetAllHot(args.search)),
                    args.count)
        from_hot ==
            IF args.use_multi_source
            THEN [i \in 1..Len(hot_ideas) |->
                    [type |-> "hot_topic", name |-> hot_ideas[i].source,
                     cost |-> 100, expected_income |-> 3000,
                     time_needed |-> Days(3)]]
            ELSE <<>>
        top == SliceTo(Analyzed(args.search), args.count)
        gathered == from_hot \o ProjectIdeas(top, preferences)
        all == IF Len(gathered) = 0 THEN FallbackIdeas ELSE gathered
        ranked == RankIdeasOf(all)
    IN SliceTo([k \in 1..Len(ranked) |-> all[ranked[k]]], args.count)

\* the ideas returned are stored one after the other; the fields add_idea
\* writes into the idea it was handed are on the stored record
GenerateDailyIdeas ==
    /\ Running("generate_daily_ideas")
    /\ \E error \in {DailyError(call.args)} :
        IF error # ""
        THEN /\ call' = Raises(error)
             /\ UNCHANGED <<ideas, ideas_file>>
        ELSE \E final_ideas \in {GenerateDailyIdeasOf(call.args)} :
             /\ call' = Returns(final_ideas)
             /\ ideas' =
                  IF call.args.save_to_pool
                  THEN ideas \o [i \in 1..Len(final_ideas) |->
                                    NewIdea(final_ideas[i])]
                  ELSE ideas
             /\ ideas_file' =
                  IF call.args.save_to_pool /\ Len(final_ideas) > 0
                  THEN SaveJson(ideas') ELSE ideas_file
    /\ UNCHANGED <<other, now, executions, revenues,
                   execution_file, revenue_file>>

\* --------------------------------------------------------- specifications
\* idea ids a caller can pass: the ones issued so far and one never issued
IdArgs == (0..StampSec(now)) \cup {UnknownId}

\* exec ids a caller can pass: the issued ones and one never issued
ExecIdArgs == {executions[i].id : i \in 1..Len(executions)} \cup {UnknownId}

\* the calls a client can make: time and each collection kept within a
\* bound, the arguments drawn from the given sets
CallTick(max) ==
    now < max /\ Tick

CallAddIdea(max, dicts) ==
    Len(ideas) < max /\ \E d \in dicts : AddIdea(d)

CallUpdateIdeaStatus(statuses, notes) ==
    \E id \in IdArgs, s \in statuses, n \in notes :
        UpdateIdeaStatus(id, s, n)

CallStartExecution(max) ==
    Len(executions) < max /\ \E id \in IdArgs : StartExecution(id)

CallAddExecutionStep(max) ==
    \E e \in ExecIdArgs, st \in StepArgs, s \in StepStatusArgs :
        /\ \A i \in 1..Len(executions) : Len(executions[i].steps) < max
        /\ AddExecutionStep(e, st, s)

CallAddExecutionLog(max) ==
    \E e \in ExecIdArgs, l \in LogArgs :
        /\ \A i \in 1..Len(executions) : Len(executions[i].logs) < max
        /\ AddExecutionLog(e, l)

CallCompleteExecution(notes) ==
    \E e \in ExecIdArgs, ok \in BOOLEAN, n \in notes :
        CompleteExecution(e, ok, n)

\* complete_execution(exec_id) with the defaults success=True, notes=None
CallCompleteSuccess ==
    \E e \in ExecIdArgs : CompleteExecution(e, TRUE, None)

CallAddRevenue(max, ids, amounts, sources, notes) ==
    /\ Len(revenues) < max
    /\ \E id \in ids, a \in amounts, s \in sources, n \in notes :
            AddRevenue(id, a, s, n)

CallGetRevenueStats(ids) ==
    \E id \in ids : GetRevenueStats(id)

CallListIdeas(statuses, limits) ==
    \E s \in statuses, l \in limits : ListIdeas(s, l)

\* the whole store
Next ==
    \/ CallTick(MaxNow)
    \/ CallAddIdea(MaxIdeas, {[name |-> "n1"]})
    \/ CallUpdateIdeaStatus({"archived"}, {"note"})
    \/ CallStartExecution(MaxExecs)
    \/ CallAddExecutionStep(MaxTrail)
    \/ CallAddExecutionLog(MaxTrail)
    \/ CallCompleteExecution({None})
    \/ CallAddRevenue(MaxRevs, {0, UnknownId}, {1}, {"A"}, {None})
    \/ CallGetRevenueStats({NoneId, UnknownId})

Spec == Init /\ [][Next]_vars

\* the idea collection on its own
NextIdeas ==
    \/ CallTick(IdeasMaxNow)
    \/ CallAddIdea(IdeasMaxIdeas, InputDicts)
    \/ CallUpdateIdeaStatus(StatusArgs, NotesArgs)

SpecIdeas == Init /\ [][NextIdeas]_vars

\* ideas and the executions that refer to them
NextLifecycle ==
    \/ CallTick(LifeMaxNow)
    \/ CallAddIdea(LifeMaxIdeas, {[name |-> "n1"]})
    \/ CallStartExecution(LifeMaxExecs)
    \/ CallCompleteExecution(NotesArgs)

SpecLifecycle == Init /\ [][NextLifecycle]_vars

\* executions and their trails
NextTrail ==
    \/ CallTick(TrailMaxNow)
    \/ CallStartExecution(TrailMaxExecs)
    \/ CallAddExecutionStep(TrailMaxTrail)
    \/ CallAddExecutionLog(TrailMaxTrail)
    \/ CallCompleteSuccess

SpecTrail == Init /\ [][NextTrail]_vars

\* the revenue collection and its statistics, within one clock tick
NextRevenue ==
    \/ CallAddRevenue(StatsMaxRevs, {0, UnknownId}, Amounts, Sources, {None})
    \/ CallGetRevenueStats(RevIdArgs \cup {NoneId})

SpecRevenue == Init /\ [][NextRevenue]_vars

\* listing the idea collection
NextList ==
    \/ CallTick(ListMaxNow)
    \/ CallAddIdea(ListMaxIdeas, {[name |-> "n1"]})
    \/ CallUpdateIdeaStatus({"archived"}, {None})
    \/ CallListIdeas(ListStatusArgs, LimitArgs)

SpecList == Init /\ [][NextList]_vars

\* a directory whose files are lost or damaged between two stores
NextLoad ==
    \/ CallAddIdea(LoadMaxRecords, {[name |-> "n1"]})
    \/ CallStartExecution(LoadMaxRecords)
    \/ CallAddRevenue(LoadMaxRecords, {0}, {1}, {"A"}, {None})
    \/ \E f \in {"ideas", "executions", "revenues"} : RemoveFile(f)
    \/ \E f \in {"ideas", "executions", "revenues"} : DamageFile(f)
    \/ LoadData

SpecLoad == Init /\ [][NextLoad]_vars

\* the analyzer's functions, each applied to every input of its domain
PreferenceArgs ==
    {NonePreferences, Preferences({}, 0, 0, <<>>)}
    \cup {Preferences({"skills"}, 0, 0, s) : s \in SkillArgs}
    \cup {Preferences({"budget", "time_available", "skills"}, b, t, s) :
            b \in BudgetArgs, t \in TimeArgs, s \in SkillArgs}

AnalyzerCalls ==
    {Pending("analyze_potential", p) : p \in Projects}
    \cup {Pending("_analyze_suitable_types", p) : p \in Projects}
    \cup {Pending("_adjust_for_user", [template |-> t, preferences |-> pr]) :
            t \in TemplateNames, pr \in PreferenceArgs}
    \cup {Pending("rank_ideas", l) :
            l \in UNION {[1..n -> RankIdeaArgs] : n \in 0..RankMaxIdeas}}

InitAnalyzer ==
    /\ now = 0
    /\ ideas = <<>>
    /\ executions = <<>>
    /\ revenues = <<>>
    /\ ideas_file = [exists |-> FALSE, data |-> <<>>]
    /\ execution_file = [exists |-> FALSE, data |-> <<>>]
    /\ revenue_file = [exists |-> FALSE, data |-> <<>>]
    /\ other = NoOther
    /\ call \in AnalyzerCalls

NextAnalyzer ==
    \/ AnalyzePotential
    \/ AnalyzeSuitableTypes
    \/ AdjustForUser
    \/ RankIdeas

SpecAnalyzer == InitAnalyzer /\ [][NextAnalyzer]_vars

\* the generator: the descriptors search_ai_projects hands on have more
\* than 50 stars, a language and a description (empty when the payload
\* has none, None when the payload has null) and no trending_stars; a
\* search result has no name twice and the most starred first
DailyProjects ==
    [name : NameArgs, stars : {51, 1001}, trending_stars : {AbsentT},
     language : {<<>>, NoneText, <<"P", "y", "t", "h", "o", "n">>},
     description : {<<>>, NoneText, <<"A", "I", " ", "a", "p", "p">>}]

DailySearches ==
    {l \in UNION {[1..n -> DailyProjects] : n \in 0..DailyMaxProjects} :
        \A i, j \in 1..Len(l) :
            i < j => l[i].name # l[j].name /\ l[i].stars >= l[j].stars}

DailyCalls ==
    LET preferences ==
            {NonePreferences,
             Preferences({"budget", "time_available", "skills"}, 0,
                         Days(30), <<>>)}
    IN
    {Pending("analyze_potential", p) : p \in DailyProjects}
    \cup {Pending("generate_ideas", [project |-> p, user_preferences |-> pr]) :
            p \in DailyProjects, pr \in preferences}
    \cup {Pending("generate_daily_ideas",
                  [count |-> c, save_to_pool |-> s, use_multi_source |-> m,
                   user_preferences |-> pr, search |-> l]) :
            c \in {0, 1, 3}, s \in BOOLEAN, m \in BOOLEAN,
            pr \in preferences, l \in DailySearches}

InitDaily ==
    /\ now = 0
    /\ ideas = <<>>
    /\ executions = <<>>
    /\ revenues = <<>>
    /\ ideas_file = [exists |-> FALSE, data |-> <<>>]
    /\ execution_file = [exists |-> FALSE, data |-> <<>>]
    /\ revenue_file = [exists |-> FALSE, data |-> <<>>]
    /\ other = NoOther
    /\ call \in DailyCalls

NextDaily ==
    \/ AnalyzePotential
    \/ GenerateIdeas
    \/ GenerateDailyIdeas

SpecDaily == InitDaily /\ [][NextDaily]_vars

\* two stores on one directory: the ideas, and the executions that change
\* an idea's status, called on either store
NextTwo ==
    \/ CallTick(TwoMaxNow)
    \/ CallAddIdea(TwoMaxIdeas, {[name |-> "n1"]})
    \/ CallUpdateIdeaStatus({"archived"}, {None})
    \/ CallStartExecution(TwoMaxExecs)
    \/ OpenOther
    \/ Switch

SpecTwo == Init /\ [][NextTwo]_vars

\* ------------------------------------------------------------------ claims
IsPrefix(s, t) == Len(s) <= Len(t) /\ SubSeq(t, 1, Len(s)) = s

IdeaIdx == 1..Len(ideas)
ExecIdx == 1..Len(executions)
RevIdx == 1..Len(revenues)

\* C1: no two idea records in the idea collection have the same id.
C1_UniqueIdeaIds ==
    \A i, j \in IdeaIdx : i # j => ideas[i].id # ideas[j].id

\* C2: an execution starts at in_progress and changes status exactly once,
\* to success or failed; once success or failed it never changes again.
C2_StatusChangesOnce ==
    [][/\ \A i \in ExecIdx :
            /\ executions[i].status \in {"success", "failed"}
                  => executions'[i].status = executions[i].status
            /\ executions'[i].status \in {executions[i].status, "success", "failed"}
       /\ \A i \in (1..Len(executions')) \ ExecIdx :
            executions'[i].status = "in_progress"]_vars

\* C3: immediately after add_idea returns an id, get_idea(id) returns the
\* record that was just added, and it has status pending and score 0.
C3_AddThenGet ==
    call.op = "add_idea" =>
        /\ GetIdea(call.ret) = Len(ideas)
        /\ ideas[GetIdea(call.ret)].status = "pending"
        /\ ideas[GetIdea(call.ret)].score = 0

\* C8: every idea record's status is one of pending, in_progress,
\* completed, failed, whatever the operations were called with.
C8_StatusDomain ==
    \A i \in IdeaIdx :
        ideas[i].status \in {"pending", "in_progress", "completed", "failed"}

StoreUnchanged ==
    UNCHANGED <<ideas, executions, revenues,
                ideas_file, execution_file, revenue_file>>

\* C4: start_execution(idea_id) appends exactly one execution record, in
\* status in_progress with empty steps and logs, and returns its id; the idea
\* that idea_id refers to becomes in_progress, and when there is none the
\* idea collection is unchanged while the execution is still created.
C4_StartExecution ==
    [][\A id \in IdArgs : StartExecution(id) =>
        /\ Len(executions') = Len(executions) + 1
        /\ IsPrefix(executions, executions')
        /\ LET e == executions'[Len(executions')] IN
            /\ e.status = "in_progress"
            /\ e.steps = <<>>
            /\ e.logs = <<>>
            /\ e.idea_id = id
            /\ call'.ret = e.id
        /\ Len(ideas') = Len(ideas)
        /\ IF GetIdea(id) # 0
           THEN ideas'[GetIdea(id)].status = "in_progress"
           ELSE ideas' = ideas /\ ideas_file' = ideas_file]_vars

\* an execution was started for an id that matches no idea, and another one
\* for an existing idea, which is now in_progress
C4_Witness ==
    /\ call.op = "start_execution"
    /\ Len(executions) = 2
    /\ GetIdea(executions[1].idea_id) = 0
    /\ GetIdea(executions[2].idea_id) # 0
    /\ ideas[GetIdea(executions[2].idea_id)].status = "in_progress"

\* C5: complete_execution(exec_id, success) on a known exec_id sets that
\* execution's status to success or failed, sets completed_at, sets the
\* status of the idea its idea_id refers to to completed or failed, and
\* returns true.
C5_CompleteExecution ==
    [][\A e \in ExecIdArgs, ok \in BOOLEAN, n \in NotesArgs :
        (CompleteExecution(e, ok, n) /\ FirstIdx(executions, e) # 0) =>
            LET i == FirstIdx(executions, e)
                k == GetIdea(executions[i].idea_id)
            IN  /\ executions'[i].status = IF ok THEN "success" ELSE "failed"
                /\ executions'[i].completed_at = now
                /\ executions'[i].completed_at # AbsentT
                /\ k # 0 => ideas'[k].status =
                                IF ok THEN "completed" ELSE "failed"
                /\ call'.ret = TRUE]_vars

\* an execution of an existing idea was completed with success=false
C5_Witness ==
    /\ call.op = "complete_execution"
    /\ call.ret = TRUE
    /\ \E i \in ExecIdx :
        /\ executions[i].status = "failed"
        /\ executions[i].completed_at # AbsentT
        /\ GetIdea(executions[i].idea_id) # 0
        /\ ideas[GetIdea(executions[i].idea_id)].status = "failed"

\* C6: update_idea_status with an id that matches no idea, and
\* add_execution_step, add_execution_log and complete_execution with an
\* exec_id that matches no execution, return false and leave the three
\* collections and their files unchanged.
C6_UnknownIdNoOp ==
    [][/\ \A id \in IdArgs, s \in StatusArgs, n \in NotesArgs :
            (UpdateIdeaStatus(id, s, n) /\ GetIdea(id) = 0)
                => (call'.ret = FALSE /\ StoreUnchanged)
       /\ \A e \in ExecIdArgs : FirstIdx(executions, e) = 0 =>
            /\ \A st \in StepArgs, s \in StepStatusArgs :
                    AddExecutionStep(e, st, s)
                        => (call'.ret = FALSE /\ StoreUnchanged)
            /\ \A l \in LogArgs :
                    AddExecutionLog(e, l)
                        => (call'.ret = FALSE /\ StoreUnchanged)
            /\ \A ok \in BOOLEAN, n \in NotesArgs :
                    CompleteExecution(e, ok, n)
                        => (call'.ret = FALSE /\ StoreUnchanged)]_vars

\* a lookup has just failed in a store whose three collections hold records
C6_Witness ==
    /\ call.op \in {"update_idea_status", "add_execution_step",
                    "add_execution_log", "complete_execution"}
    /\ call.ret = FALSE
    /\ ideas # <<>> /\ executions # <<>> /\ revenues # <<>>

\* the executions whose trail (steps or logs) grew by one entry in this
\* step, and those whose trail stayed as it was
Grown(trail(_)) ==
    {i \in ExecIdx : Len(trail(executions'[i])) = Len(trail(executions[i])) + 1}

Same(trail(_)) ==
    {i \in ExecIdx : trail(executions'[i]) = trail(executions[i])}

StepsOf(e) == e.steps
LogsOf(e) == e.logs

\* C7: steps and logs are append-only: in every step of the store each
\* execution's earlier steps (logs) are a prefix of its later ones, also
\* after the execution was completed; add_execution_step and
\* add_execution_log on a known exec_id extend exactly one trail by exactly
\* one entry.
C7_TrailsAppendOnly ==
    [][/\ Len(executions') >= Len(executions)
       /\ \A i \in ExecIdx :
            /\ IsPrefix(executions[i].steps, executions'[i].steps)
            /\ IsPrefix(executions[i].logs, executions'[i].logs)
       /\ \A e \in ExecIdArgs : FirstIdx(executions, e) # 0 =>
            /\ \A st \in StepArgs, s \in StepStatusArgs :
                    AddExecutionStep(e, st, s) =>
                        /\ Cardinality(Grown(StepsOf)) = 1
                        /\ Grown(StepsOf) \cup Same(StepsOf) = ExecIdx
                        /\ Same(LogsOf) = ExecIdx
            /\ \A l \in LogArgs :
                    AddExecutionLog(e, l) =>
                        /\ Cardinality(Grown(LogsOf)) = 1
                        /\ Grown(LogsOf) \cup Same(LogsOf) = ExecIdx
                        /\ Same(StepsOf) = ExecIdx]_vars

\* a step was added to an execution after it was completed, and a second
\* execution with the same id kept its steps
C7_Witness ==
    /\ call.op = "add_execution_step"
    /\ Len(executions) = 2
    /\ executions[1].id = executions[2].id
    /\ executions[1].status # "in_progress"
    /\ Len(executions[1].steps) = TrailMaxTrail
    /\ executions[1].steps[TrailMaxTrail].timestamp > executions[1].completed_at
    /\ executions[2].steps = <<>>

RevSel(id) ==
    {i \in RevIdx : ~TruthyId(id) \/ revenues[i].idea_id = id}

RevSelSeq(id) ==
    SelectSeq(revenues, LAMBDA r : ~TruthyId(id) \/ r.idea_id = id)

\* the sum of the amounts of a set of revenue records, as a number
RECURSIVE ExactSum(_)
ExactSum(S) ==
    IF S = {} THEN 0
    ELSE LET i == CHOOSE x \in S : TRUE IN
         revenues[i].amount + ExactSum(S \ {i})

\* the values of a by_source dict summed as numbers, and as python's
\* sum(by_source.values()) adds them
RECURSIVE ValuesSum(_)
ValuesSum(d) ==
    IF d = <<>> THEN 0 ELSE d[Len(d)].value + ValuesSum(SubSeq(d, 1, Len(d) - 1))

RECURSIVE ValuesFloatSum(_)
ValuesFloatSum(d) ==
    IF d = <<>> THEN 0
    ELSE FAdd(ValuesFloatSum(SubSeq(d, 1, Len(d) - 1)), d[Len(d)].value)

BySourceKeys(d) == {d[j].key : j \in 1..Len(d)}

\* what every result of get_revenue_stats(id) satisfies, rounding or not
StatsShape(id, st) ==
    /\ st.count = Cardinality(RevSel(id))
    /\ IF st.count = 0 THEN st.average = <<0, 1>>
       ELSE st.average[1] * st.count = st.total * st.average[2]
    /\ BySourceKeys(st.by_source) = {revenues[i].source : i \in RevSel(id)}
    /\ Len(st.by_source) = Cardinality(BySourceKeys(st.by_source))
    /\ StoreUnchanged
    /\ now' = now

\* C10 as stated: get_revenue_stats(id) returns count, total = the sum of the
\* amounts, average = total/count (0 for count 0) and by_source = the sum per
\* occurring source, over all records or those of idea id, so that the
\* by_source values sum to total; and changes no state.  A sum is accepted
\* both as the number and as the float sum python computes.
C10_StatsAsStated ==
    [][\A id \in RevIdArgs \cup {NoneId} : GetRevenueStats(id) =>
        LET st == call'.ret IN
        /\ StatsShape(id, st)
        /\ st.total \in {ExactSum(RevSel(id)), SumAmounts(RevSelSeq(id))}
        /\ \A j \in 1..Len(st.by_source) :
            LET same(r) == r.source = st.by_source[j].key IN
            st.by_source[j].value \in
                {ExactSum({i \in RevSel(id) :
                            revenues[i].source = st.by_source[j].key}),
                 SumAmounts(SelectSeq(RevSelSeq(id), same))}
        /\ st.total \in {ValuesSum(st.by_source),
                          ValuesFloatSum(st.by_source)}]_vars

\* the selected amounts add up without rounding: non-negative amounts whose
\* sum has at most MantBits significant bits
SumsExact(id) ==
    /\ \A i \in RevSel(id) : revenues[i].amount >= 0
    /\ ExactSum(RevSel(id)) <= Pow2(MantBits)

\* C10 amended: count, average and the by_source keys are as stated and no
\* state changes; total, the by_source values and their sum are the stated
\* sums whenever the selected amounts add up without rounding.
C10_StatsExact ==
    [][\A id \in RevIdArgs \cup {NoneId} : GetRevenueStats(id) =>
        LET st == call'.ret IN
        /\ StatsShape(id, st)
        /\ SumsExact(id) =>
            /\ st.total = ExactSum(RevSel(id))
            /\ \A j \in 1..Len(st.by_source) :
                st.by_source[j].value =
                    ExactSum({i \in RevSel(id) :
                                revenues[i].source = st.by_source[j].key})
            /\ ValuesSum(st.by_source) = st.total]_vars

\* statistics were taken over two of three records, from two sources
C10_Witness ==
    /\ call.op = "get_revenue_stats"
    /\ Len(revenues) = 3
    /\ call.ret.count = 2
    /\ call.ret.total = 2
    /\ call.ret.average = <<1, 1>>
    /\ Len(call.ret.by_source) = 2

\* the positions a list_ideas result names
Listed(r) == {r[k] : k \in 1..Len(r)}

\* the stored ideas a list_ideas(status, ...) call selects from
Matching(status) ==
    {i \in IdeaIdx : Truthy(status) => ideas[i].status = status}

\* C11: list_ideas(status, limit) returns at most limit records, every one
\* of them a stored idea with exactly the requested status when one is
\* given, in non-increasing created_at order; no matching idea left out was
\* created later than one returned, and as many are returned as limit and
\* the matches allow; the stored collection and its file are untouched.
C11_ListIdeas ==
    [][\A s \in ListStatusArgs, l \in LimitArgs :
        ListIdeas(s, l) =>
            LET r == call'.ret IN
            /\ Len(r) <= l
            /\ Listed(r) \subseteq Matching(s)
            /\ Cardinality(Listed(r)) = Len(r)
            /\ Len(r) = l \/ Listed(r) = Matching(s)
            /\ \A k \in 1..(Len(r) - 1) :
                    ideas[r[k]].created_at >= ideas[r[k + 1]].created_at
            /\ \A j \in Matching(s) \ Listed(r) : \A i \in Listed(r) :
                    ideas[j].created_at <= ideas[i].created_at
            /\ ideas' = ideas
            /\ ideas_file' = ideas_file]_vars

\* a listing was cut to two of three stored ideas, created at a whole
\* second and within one, and the one left out is the oldest
C11_Witness ==
    /\ call.op = "list_ideas"
    /\ Len(ideas) = 3
    /\ Len(call.ret) = 2
    /\ call.ret = <<3, 2>>
    /\ ideas[1].created_at = 0
    /\ ideas[2].created_at = 1
    /\ ideas[3].created_at = TicksPerSec
    /\ ideas[1].status = ideas[2].status

\* C12: with one store on a directory, after every operation each backing
\* file holds exactly the in-memory collection, and what a new store would
\* load from the three files is, field for field, the ideas, executions
\* and revenues in memory.
C12_FilesMirrorMemory ==
    /\ ideas_file.exists => ideas_file.data = JsonDump(ideas)
    /\ execution_file.exists => execution_file.data = JsonDump(executions)
    /\ revenue_file.exists => revenue_file.data = JsonDump(revenues)
    /\ LoadJson(ideas_file, IdeaOptional) = ideas
    /\ LoadJson(execution_file, ExecutionOptional) = executions
    /\ LoadJson(revenue_file, RevenueOptional) = revenues

\* all three files were written: an idea with notes, a completed execution
\* with a step and a log, and a revenue whose notes are None
C12_Witness ==
    /\ ideas_file.exists /\ execution_file.exists /\ revenue_file.exists
    /\ \E i \in IdeaIdx : ideas[i].notes = "note"
    /\ \E i \in ExecIdx :
            /\ executions[i].steps # <<>>
            /\ executions[i].logs # <<>>
            /\ executions[i].completed_at # AbsentT
            /\ executions[i].notes = Absent
    /\ \E i \in RevIdx : revenues[i].notes = None

\* a backing file that is missing, or that json.load cannot read
Unusable(f) == ~f.exists \/ f.data = <<"malformed">>

\* C13: constructing a store never fails; a collection whose backing file
\* is missing or unreadable/malformed starts as the empty list, and each of
\* the three collections is loaded from its own file whatever the state of
\* the other two files.
C13_LoadDegrades ==
    [][LoadData =>
        /\ call'.ret = None
        /\ ideas' = IF Unusable(ideas_file) THEN <<>>
                    ELSE JsonLoad(ideas_file.data, IdeaOptional)
        /\ executions' = IF Unusable(execution_file) THEN <<>>
                         ELSE JsonLoad(execution_file.data, ExecutionOptional)
        /\ revenues' = IF Unusable(revenue_file) THEN <<>>
                       ELSE JsonLoad(revenue_file.data, RevenueOptional)]_vars

\* a store was constructed over a damaged idea file, a missing revenue
\* file and an intact execution file holding one execution
C13_Witness ==
    /\ call.op = "load_data"
    /\ ideas_file.exists /\ ideas_file.data = <<"malformed">>
    /\ ideas = <<>>
    /\ ~revenue_file.exists
    /\ revenues = <<>>
    /\ execution_file.exists
    /\ Len(executions) = 1
    /\ executions[1].status = "in_progress"

\* a descriptor none of whose texts is None
WellFormed(p) == p.language # NoneText /\ p.description # NoneText

\* the rubric of analyze_potential over a lower-cased text and language
PopularityBand(stars) ==
    CASE stars \in 1001..1000000 -> 30
      [] stars \in 501..1000 -> 25
      [] stars \in 101..500 -> 20
      [] stars \in 51..100 -> 15
      [] OTHER -> 10

MomentumBand(trending) ==
    CASE trending \in 101..1000000 -> 25
      [] trending \in 51..100 -> 20
      [] trending \in 21..50 -> 15
      [] trending \in 11..20 -> 10
      [] OTHER -> 5

DomainBand(language, text) ==
    LET ai == \E k \in {<<"a", "i">>,
            <<"l", "l", "m">>,
            <<"g", "p", "t">>,
            <<"c", "h", "a", "t", "g", "p", "t">>,
            <<"c", "l", "a", "u", "d", "e">>,
            <<"a", "g", "e", "n", "t">>,
            <<"o", "p", "e", "n", "a", "i">>,
            <<"a", "n", "t", "h", "r", "o", "p", "i", "c">>} : Contains(text, k)
        hot == language \in {<<"p", "y", "t", "h", "o", "n">>,
            <<"t", "y", "p", "e", "s", "c", "r", "i", "p", "t">>,
            <<"r", "u", "s", "t">>,
            <<"g", "o">>}
    IN CASE ai /\ hot -> 20
         [] ai /\ ~hot -> 15
         [] ~ai /\ hot -> 5
         [] OTHER -> 0

MonetizationBand(text) ==
    LET has(K) == \E k \in K : Contains(text, k) IN
    CASE has({<<"a", "p", "i">>,
            <<"s", "d", "k">>,
            <<"c", "l", "i">>,
            <<"f", "r", "a", "m", "e", "w", "o", "r", "k">>,
            <<"p", "l", "a", "t", "f", "o", "r", "m">>,
            <<"t", "o", "o", "l">>,
            <<"a", "u", "t", "o", "m", "a", "t", "i", "o", "n">>,
            <<"c", "h", "a", "t", "b", "o", "t">>,
            <<"a", "s", "s", "i", "s", "t", "a", "n", "t">>,
            <<"d", "a", "s", "h", "b", "o", "a", "r", "d">>}) -> 15
      [] has({<<"l", "i", "b", "r", "a", "r", "y">>,
            <<"p", "a", "c", "k", "a", "g", "e">>}) -> 10
      [] OTHER -> 0

BusinessBand(text) ==
    LET has(K) == \E k \in K : Contains(text, k) IN
    CASE has({<<"s", "a", "a", "s">>,
            <<"e", "n", "t", "e", "r", "p", "r", "i", "s", "e">>}) -> 10
      [] has({<<"a", "p", "i">>,
            <<"s", "e", "r", "v", "i", "c", "e">>}) -> 7
      [] has({<<"t", "o", "o", "l">>,
            <<"a", "p", "p">>}) -> 5
      [] OTHER -> 0

RubricScore(p, language, text) ==
    PopularityBand(IF p.stars = AbsentT THEN 0 ELSE p.stars)
    + MomentumBand(IF p.trending_stars = AbsentT THEN 0 ELSE p.trending_stars)
    + DomainBand(language, text)
    + MonetizationBand(text)
    + BusinessBand(text)

TextOf(v) == IF v = AbsentText THEN <<>> ELSE v

\* C14: for a descriptor whose texts are not None, analyze_potential
\* returns as score the sum of the five rubric bands: popularity, momentum,
\* domain fit (AI keyword and hot language independently), monetization
\* and business model, the last two with their else-priorities.
C14_ScoreIsBandSum ==
    [][AnalyzePotential /\ WellFormed(call.args) =>
            call'.ret[2] = RubricScore(call.args, Lower(TextOf(call.args.language)),
                                       Lower(TextOf(call.args.description)))]_vars

\* exactly 1000 stars (band 25), more than 100 trending stars, an AI
\* keyword, a hot language, a monetization keyword and "saas": 95
C14_Witness ==
    /\ call.op = "analyze_potential"
    /\ call.done
    /\ call.args.stars = 1000
    /\ call.args.trending_stars = 101
    /\ call.args.language = <<"P", "y", "t", "h", "o", "n">>
    /\ call.args.description = <<"A", "I", " ", "S", "a", "a", "S", " ", "A", "P", "I">>
    /\ call.ret = <<"high", 95>>

\* C15: the potential level analyze_potential returns depends on the score
\* it returns alone: high from 70 up, medium from 50 to 69, low below 50.
C15_TierFromScore ==
    [][AnalyzePotential /\ WellFormed(call.args) =>
            LET potential == call'.ret[1]
                score == call'.ret[2]
            IN /\ potential = "high" <=> score >= 70
               /\ potential = "medium" <=> (50 <= score /\ score < 70)
               /\ potential = "low" <=> score < 50]_vars

\* a score of exactly 70 was returned, as high
C15_Witness ==
    /\ call.op = "analyze_potential"
    /\ call.done
    /\ call.ret = <<"high", 70>>

\* str.upper(), to vary the case of a text
Upper(text) ==
    [i \in 1..Len(text) |->
        IF \E j \in 1..Len(LowerCase) : LowerCase[j] = text[i]
        THEN UpperCase[CHOOSE j \in 1..Len(LowerCase) : LowerCase[j] = text[i]]
        ELSE text[i]]

\* C16 as stated: keywords are matched, case-insensitively, against the
\* concatenation of the descriptor's text fields, so that a keyword in the
\* name alone earns what it earns in the description.
C16_ConcatenatedFields ==
    [][AnalyzePotential /\ WellFormed(call.args) =>
            call'.ret[2] =
                RubricScore(call.args, Lower(TextOf(call.args.language)),
                            Lower(TextOf(call.args.name) \o <<" ">>
                                  \o TextOf(call.args.description)))]_vars

\* C16: keywords are matched, case-insensitively, against the description
\* alone: the result is the same whatever the name is and whatever the
\* case of the description's letters, and is the rubric applied to the
\* lower-cased description.
C16_DescriptionOnly ==
    [][AnalyzePotential /\ WellFormed(call.args) =>
            /\ \A n \in NameArgs :
                    AnalyzePotentialOf([call.args EXCEPT !.name = n]) = call'.ret
            /\ call.args.description # AbsentText =>
                    /\ AnalyzePotentialOf(
                            [call.args EXCEPT !.description = Upper(@)]) = call'.ret
                    /\ AnalyzePotentialOf(
                            [call.args EXCEPT !.description = Lower(@)]) = call'.ret
            /\ call'.ret[2] = RubricScore(call.args, Lower(TextOf(call.args.language)),
                                          Lower(TextOf(call.args.description)))]_vars

\* a descriptor with "ai" and "api" in its name only scored the floor of
\* the two numeric bands; one with "AI" in upper case in its description
\* would have earned the keyword
C16_Witness ==
    /\ call.op = "analyze_potential"
    /\ call.done
    /\ call.args.name = <<"a", "i", "/", "a", "p", "i">>
    /\ call.args.description = AbsentText
    /\ call.args.language = AbsentText
    /\ call.args.stars = 10
    /\ call.args.trending_stars = AbsentT
    /\ call.ret = <<"low", 15>>
    /\ AnalyzePotentialOf([call.args EXCEPT !.description = <<"A", "I">>])
            = <<"low", 30>>

\* the types a result names
TypesIn(r) == {r[i] : i \in 1..Len(r)}

\* C17: for a descriptor whose texts are not None, _analyze_suitable_types
\* never returns an empty result: it contains deployment_service when
\* stars > 50, consulting on a framework/platform/architecture keyword,
\* training on a learning keyword or stars > 100, customization on an
\* enterprise/business keyword; when no rule fires the result is exactly
\* deployment_service and training.
C17_SuitableTypes ==
    [][AnalyzeSuitableTypes /\ WellFormed(call.args) =>
        LET r == call'.ret
            stars == IF call.args.stars = AbsentT THEN 0 ELSE call.args.stars
            text == Lower(TextOf(call.args.description))
            has(K) == \E k \in K : Contains(text, k)
            consulting == has({<<"f", "r", "a", "m", "e", "w", "o", "r", "k">>,
                    <<"p", "l", "a", "t", "f", "o", "r", "m">>,
                    <<"a", "r", "c", "h", "i", "t", "e", "c", "t", "u", "r", "e">>})
            learning == has({<<"t", "u", "t", "o", "r", "i", "a", "l">>,
                    <<"g", "u", "i", "d", "e">>,
                    <<"l", "e", "a", "r", "n">>})
            enterprise == has({<<"e", "n", "t", "e", "r", "p", "r", "i", "s", "e">>,
                    <<"b", "u", "s", "i", "n", "e", "s", "s">>})
            customKeyword == has({<<"e", "n", "t", "e", "r", "p", "r", "i", "s", "e">>,
                    <<"b", "u", "s", "i", "n", "e", "s", "s">>,
                    <<"s", "a", "a", "s">>,
                    <<"a", "p", "i">>})
        IN
        /\ r # <<>>
        /\ TypesIn(r) \subseteq TemplateNames
        /\ stars > 50 => "deployment_service" \in TypesIn(r)
        /\ consulting => "consulting" \in TypesIn(r)
        /\ learning \/ stars > 100 => "training" \in TypesIn(r)
        /\ enterprise => "customization" \in TypesIn(r)
        /\ (stars <= 50 /\ ~consulting /\ ~learning /\ ~customKeyword) =>
                /\ Len(r) = 2
                /\ TypesIn(r) = {"deployment_service", "training"}]_vars

\* 10 stars and a description without any keyword: the default pair
C17_Witness ==
    /\ call.op = "_analyze_suitable_types"
    /\ call.done
    /\ call.args.stars = 10
    /\ call.args.description = <<"a", "p", "p">>
    /\ call.ret = <<"deployment_service", "training">>

\* clamp(x) to [lo, hi]
Clamp(x, lo, hi) == IF x < lo THEN lo ELSE IF x > hi THEN hi ELSE x

\* C18: for every template and every preference input, cost and
\* time_needed lie within the template's ranges; with preferences, cost is
\* budget // 2 (budget 1000 when not given) clamped to the cost range and
\* time_needed is time_available (2 days when not given) clamped to the
\* time range; with no preferences the three fields are the template minimums.
C18_AdjustClamps ==
    [][AdjustForUser =>
        LET t == IDEA_TEMPLATES[call.args.template]
            pr == call.args.preferences
            cost == call'.ret[1]
            income == call'.ret[2]
            time_needed == call'.ret[3]
            budget == IF "budget" \in pr.keys THEN pr.budget ELSE 1000
            time_available ==
                IF "time_available" \in pr.keys THEN pr.time_available ELSE 4
        IN
        /\ t.cost_range[1] <= cost /\ cost <= t.cost_range[2]
        /\ t.time_range[1] <= time_needed /\ time_needed <= t.time_range[2]
        /\ IF pr.kind = "None" \/ pr.keys = {}
           THEN /\ cost = t.cost_range[1]
                /\ income = t.income_range[1]
                /\ time_needed = t.time_range[1]
           ELSE /\ cost = Clamp(budget \div 2, t.cost_range[1],
                                t.cost_range[2])
                /\ time_needed = Clamp(time_available, t.time_range[1],
                                       t.time_range[2])]_vars

\* a budget of 1,000,000 and 30.5 days for the deployment template: both
\* cut to the template maximum
C18_Witness ==
    /\ call.op = "_adjust_for_user"
    /\ call.done
    /\ call.args.template = "deployment_service"
    /\ call.args.preferences.kind = "dict"
    /\ call.args.preferences.budget = 1000000
    /\ call.args.preferences.time_available = 61
    /\ call.ret[1] = 500
    /\ call.ret[3] = 6

\* 3000 times the composite score income/1000 + 10/max(time,1) +
\* 10/max(cost/100,1) of an idea as a real number, time in half days; a
\* whole number for the ideas of RankIdeaArgs
ExactScore(idea) ==
    3 * idea.expected_income
    + 60000 \div (IF idea.time_needed > 2 THEN idea.time_needed ELSE 2)
    + 3000000 \div (IF idea.cost > 100 THEN idea.cost ELSE 100)

\* the place of input position i in a ranking r
PlaceIn(r, i) == CHOOSE k \in 1..Len(r) : r[k] = i

\* r ranks list by score(_): a permutation, non-increasing, equal scores in
\* input order, and of two ideas with equal time and cost the one with the
\* higher income first
RankedBy(score(_), list, r) ==
    LET n == Len(list) IN
    /\ Len(r) = n
    /\ {r[k] : k \in 1..n} = 1..n
    /\ \A k \in 1..(n - 1) : score(list[r[k]]) >= score(list[r[k + 1]])
    /\ \A i, j \in 1..n :
            (i < j /\ score(list[i]) = score(list[j]))
                => PlaceIn(r, i) < PlaceIn(r, j)
    /\ \A i, j \in 1..n :
            (/\ list[i].time_needed = list[j].time_needed
             /\ list[i].cost = list[j].cost
             /\ list[i].expected_income > list[j].expected_income)
                => PlaceIn(r, i) < PlaceIn(r, j)

C20_NoOperationFatal ==
    (call.op \in {"analyze_potential", "generate_ideas",
                  "generate_daily_ideas"} /\ call.done)
        => call.error = ""


\* the ideas a new store would load from the file
FileIdeas == LoadJson(ideas_file, IdeaOptional)

\* the list holds the record an add_idea call created (whatever its status
\* has become since)
Holds(list, r) ==
    \E i \in 1..Len(list) :
        /\ list[i].id = r.id
        /\ list[i].created_at = r.created_at
        /\ list[i].name = r.name

\* the record the step appended to the ideas of the store at hand, if it
\* appended one
Appended ==
    IF Len(ideas') > Len(ideas) THEN <<ideas'[Len(ideas')]>> ELSE <<>>

\* C21: two stores on one directory lose updates, one store does not.
\* When a store changes its ideas, every record of the file that the store
\* did not hold in memory (the other store added it after this one was
\* constructed), unless the step itself created a record like it, is no
\* longer in the file afterwards: the file is rewritten from the memory of
\* the store that wrote last.  As long as no second store is constructed,
\* every record of the file is still in the file after every step.
C21_LastWriteWins ==
    [][/\ (ideas' # ideas /\ other' = other) =>
            \A i \in 1..Len(FileIdeas) :
                (~Holds(ideas, FileIdeas[i]) /\ ~Holds(Appended, FileIdeas[i]))
                    => ~Holds(FileIdeas', FileIdeas[i])
       /\ (~other.constructed /\ ~other'.constructed) =>
            \A i \in 1..Len(FileIdeas) : Holds(FileIdeas', FileIdeas[i])]_vars

\* store B, constructed before A added its idea, has just changed its own
\* ideas, and the idea A holds in memory is not in the file any more
C21_Witness ==
    /\ other.constructed /\ other.name = "A"
    /\ call.op \in {"add_idea", "update_idea_status", "start_execution"}
    /\ ideas_file.exists
    /\ \E i \in 1..Len(other.ideas) :
            /\ ~Holds(FileIdeas, other.ideas[i])
            /\ ~Holds(ideas, other.ideas[i])


\* C22: when only start_execution and complete_execution change the status
\* of ideas, an idea (the only one with its id) that has a linked
\* execution, started at a later tick than the idea was added, still in
\* in_progress is itself in in_progress; completing one of two executions
\* of an idea leaves the idea in in_progress while the other one runs.
C22_RunningKeepsInProgress ==
    \A i \in IdeaIdx, e \in ExecIdx :
        (/\ \A j \in IdeaIdx : ideas[j].id = ideas[i].id => j = i
         /\ executions[e].idea_id = ideas[i].id
         /\ executions[e].started_at > ideas[i].created_at
         /\ executions[e].status = "in_progress")
            => ideas[i].status = "in_progress"

====
